---- MODULE Spec2Model ----
(***************************************************************************)
(* ForgeSphere: the wallet session (WalletGenerator.tsx), the derivation   *)
(* engine (wallet-derivation.ts) and the persistence store                 *)
(* (wallet-storage.ts).                                                    *)
(*                                                                         *)
(* A JavaScript string is a sequence of tokens (each token a TLA+ string): *)
(* "" is <<>>, a mnemonic phrase is words separated by the token " ", a    *)
(* path type is its digits.  A localStorage record is <<>> when the key is *)
(* absent (getItem returns null) and <<text>> when present.                *)
(***************************************************************************)
EXTENDS Integers, Sequences, FiniteSets, TLC

VARIABLES
    mnemonicWords,       \* useState<string[]>: the active mnemonic, as words
    wallets,             \* useState<Wallet[]>
    chain,               \* useState<string>: the selected path type
    visiblePrivateKeys,  \* useState<boolean[]>
    visiblePhrases,      \* useState<boolean[]>
    storage,             \* localStorage: key -> <<>> or <<text>>
    phase,               \* "mount" (effect pending), "ready", "crashed"
    storageFaults,       \* how many setItem calls have thrown so far
    last                 \* what the last handler did (see Report)

vars == <<mnemonicWords, wallets, chain, visiblePrivateKeys, visiblePhrases,
          storage, phase, storageFaults, last>>

memory == <<mnemonicWords, wallets, chain, visiblePrivateKeys, visiblePhrases>>

(***************************************************************************)
(* Bounds of the model.                                                    *)
(***************************************************************************)
MaxWallets == 2          \* "Add Wallet" is followed up to this many wallets
MaxStorageFaults == 1    \* setItem calls that throw in one run
MaxVisible == 1          \* private keys revealed at the same time
MaxAccountIndex == 10    \* account indexes of a derivation called on its own

(***************************************************************************)
(* Strings.                                                                *)
(***************************************************************************)
SPACE == " "

RECURSIVE TrimStart(_)
TrimStart(s) ==
    IF s # <<>> /\ Head(s) = SPACE THEN TrimStart(Tail(s)) ELSE s

RECURSIVE TrimEnd(_)
TrimEnd(s) ==
    IF s # <<>> /\ s[Len(s)] = SPACE
    THEN TrimEnd(SubSeq(s, 1, Len(s) - 1))
    ELSE s

\* String.prototype.trim
Trim(s) == TrimEnd(TrimStart(s))

\* String.prototype.split(" "): one piece per separator, empty pieces kept
RECURSIVE SplitFrom(_, _, _)
SplitFrom(s, i, piece) ==
    IF i > Len(s) THEN <<piece>>
    ELSE IF s[i] = SPACE THEN <<piece>> \o SplitFrom(s, i + 1, <<>>)
    ELSE SplitFrom(s, i + 1, Append(piece, s[i]))

\* Mutant: the last piece is lost.
Split_DropsLast(s) ==
    LET pieces == SplitFrom(s, 1, <<>>)
    IN  SubSeq(pieces, 1, Len(pieces) - 1)

Split(s) == SplitFrom(s, 1, <<>>)

\* Array.prototype.join(" ")
RECURSIVE Join(_)
Join(words) ==
    IF words = <<>> THEN <<>>
    ELSE IF Len(words) = 1 THEN words[1]
    ELSE words[1] \o <<SPACE>> \o Join(Tail(words))

\* Array.prototype.filter((_, i) => i !== index), index counted from 0
RemoveAt(s, index) ==
    [k \in 1..(Len(s) - (IF index + 1 \in 1..Len(s) THEN 1 ELSE 0)) |->
        IF k < index + 1 THEN s[k] ELSE s[k + 1]]

(***************************************************************************)
(* Path types.                                                             *)
(***************************************************************************)
SOLANA == <<"5", "0", "1">>
ETHEREUM == <<"6", "0">>
Digits == {"0", "1", "2", "3", "4", "5", "6", "7", "8", "9"}

(***************************************************************************)
(* Mnemonic phrases (bip39 is a library: validity is membership in the     *)
(* set of phrases with a correct word list and checksum).                  *)
(***************************************************************************)
PLACEHOLDER_WORDS == 12

UserWords12 ==
    <<<<"legal">>, <<"winner">>, <<"thank">>, <<"year">>, <<"wave">>,
      <<"sausage">>, <<"worth">>, <<"useful">>, <<"legal">>, <<"winner">>,
      <<"thank">>, <<"yellow">>>>

UserWords24 ==
    <<<<"letter">>, <<"advice">>, <<"cage">>, <<"absurd">>, <<"amount">>,
      <<"doctor">>, <<"acoustic">>, <<"avoid">>, <<"letter">>, <<"advice">>,
      <<"cage">>, <<"absurd">>, <<"amount">>, <<"doctor">>, <<"acoustic">>,
      <<"avoid">>, <<"letter">>, <<"advice">>, <<"cage">>, <<"absurd">>,
      <<"amount">>, <<"doctor">>, <<"acoustic">>, <<"bless">>>>

GeneratedWords ==
    <<<<"zoo">>, <<"zoo">>, <<"zoo">>, <<"zoo">>, <<"zoo">>, <<"zoo">>,
      <<"zoo">>, <<"zoo">>, <<"zoo">>, <<"zoo">>, <<"zoo">>, <<"wrong">>>>

\* Same words as UserWords12 with the last one changed: the checksum fails.
BadChecksumWords ==
    [UserWords12 EXCEPT ![12] = <<"year">>]

ValidPhrases == {Join(UserWords12), Join(UserWords24), Join(GeneratedWords)}

\* Mutant: the validation gate is skipped.
validateMnemonic_Skipped(mnemonic) == TRUE

\* Mutant: no phrase passes the validation gate.
validateMnemonic_RejectsAll(mnemonic) == FALSE

\* bip39.validateMnemonic
validateMnemonic(mnemonic) == mnemonic \in ValidPhrases

\* bip39.generateMnemonic(): the phrases a call may return (128 bits, 12 words)
GeneratedPhrases == {Join(GeneratedWords)}

\* What the user may have typed into MnemonicInput before submitting.
Inputs ==
    { <<>>,
      <<SPACE>>,
      Join(UserWords12),
      <<SPACE>> \o Join(UserWords12) \o <<SPACE>>,
      Join(BadChecksumWords),
      Join(UserWords24) }

(***************************************************************************)
(* Derivation engine (wallet-derivation.ts).  The cryptographic libraries  *)
(* are injective symbolic constructors: equal outputs only from equal      *)
(* inputs.                                                                 *)
(***************************************************************************)
\* bip39.mnemonicToSeedSync: any string is accepted, no validation
mnemonicToSeedSync(mnemonic) == <<"seed", mnemonic>>

\* the decimal digits of a number, as `${accountIndex}` prints it
RECURSIVE DecimalString(_)
DecimalString(n) ==
    IF n < 10 THEN <<ToString(n)>>
    ELSE DecimalString(n \div 10) \o <<ToString(n % 10)>>

\* Mutant: the account index is left out of the path.
DerivationPath_FixedAccount(pathType, accountIndex) ==
    <<"m", "/", "4", "4", "'", "/">> \o pathType \o <<"'", "/", "0", "'", "/", "0", "'">>

\* `m/44'/${pathType}'/0'/${accountIndex}'`
DerivationPath(pathType, accountIndex) ==
    <<"m", "/", "4", "4", "'", "/">> \o pathType \o <<"'", "/", "0", "'", "/">>
        \o DecimalString(accountIndex) \o <<"'">>

RECURSIVE SkipDigits(_, _)
SkipDigits(s, i) ==
    IF i <= Len(s) /\ s[i] \in Digits THEN SkipDigits(s, i + 1) ELSE i

\* (\/[0-9]+')+$ from position i
RECURSIVE MatchSegments(_, _)
MatchSegments(s, i) ==
    IF i > Len(s) \/ s[i] # "/" THEN FALSE
    ELSE LET j == SkipDigits(s, i + 1)
         IN  IF j = i + 1 \/ j > Len(s) \/ s[j] # "'" THEN FALSE
             ELSE IF j = Len(s) THEN TRUE
             ELSE MatchSegments(s, j + 1)

\* ed25519-hd-key: derivePath throws unless the path matches ^m(\/[0-9]+')+$
isValidPath(path) == Len(path) >= 1 /\ path[1] = "m" /\ MatchSegments(path, 2)

derivePath(path, seed) == <<"slip10", path, seed>>

\* A throw: the name of the error and, for a wrapping error, the message of
\* its cause.
Failure(name, cause) == [threw |-> name, wallet |-> <<>>, cause |-> cause]

\* Mutant: a path type that is neither "501" nor "60" falls through to the
\* Ethereum branch.
generateWalletFromMnemonic_Fallback(pathType, mnemonic, accountIndex) ==
    LET derivedSeed == derivePath(DerivationPath(pathType, accountIndex),
                                  mnemonicToSeedSync(mnemonic))
    IN  [threw |-> "none",
         wallet |-> [publicKey |-> <<"address", <<"secp256k1.public", derivedSeed>>>>,
                     privateKey |-> <<"hex", derivedSeed>>,
                     path |-> DerivationPath(pathType, accountIndex)]]

\* Mutant: there is no catch; the error of derivePath escapes as it is.
generateWalletFromMnemonic_NoCatch(pathType, mnemonic, accountIndex) ==
    LET path == DerivationPath(pathType, accountIndex)
        derivedSeed == derivePath(path, mnemonicToSeedSync(mnemonic))
    IN  IF ~isValidPath(path) THEN Failure("Error", "none")
        ELSE IF pathType = SOLANA THEN
            [threw |-> "none",
             wallet |-> [publicKey |-> <<"base58", <<"ed25519.public", derivedSeed>>>>,
                         privateKey |-> <<"base58", <<"ed25519.secret", derivedSeed>>>>,
                         path |-> path]]
        ELSE IF pathType = ETHEREUM THEN
            [threw |-> "none",
             wallet |-> [publicKey |-> <<"address", <<"secp256k1.public", derivedSeed>>>>,
                         privateKey |-> <<"hex", derivedSeed>>,
                         path |-> path]]
        ELSE Failure("UnsupportedPathTypeError", "none")

\* Mutant: every path type is derived as Ethereum.
generateWalletFromMnemonic_OneChain(pathType, mnemonic, accountIndex) ==
    LET derivedSeed == derivePath(DerivationPath(ETHEREUM, accountIndex),
                                  mnemonicToSeedSync(mnemonic))
    IN  [threw |-> "none",
         wallet |-> [publicKey |-> <<"address", <<"secp256k1.public", derivedSeed>>>>,
                     privateKey |-> <<"hex", derivedSeed>>,
                     path |-> DerivationPath(ETHEREUM, accountIndex)]]

generateWalletFromMnemonic(pathType, mnemonic, accountIndex) ==
    LET seedBuffer == mnemonicToSeedSync(mnemonic)
        path == DerivationPath(pathType, accountIndex)
        derivedSeed == derivePath(path, seedBuffer)
    IN  IF ~isValidPath(path)
        THEN Failure("WalletDerivationError", "Invalid derivation path")
        ELSE IF pathType = SOLANA THEN
            [threw |-> "none",
             wallet |-> [publicKey |-> <<"base58", <<"ed25519.public", derivedSeed>>>>,
                         privateKey |-> <<"base58", <<"ed25519.secret", derivedSeed>>>>,
                         path |-> path]]
        ELSE IF pathType = ETHEREUM THEN
            [threw |-> "none",
             wallet |-> [publicKey |-> <<"address", <<"secp256k1.public", derivedSeed>>>>,
                         privateKey |-> <<"hex", derivedSeed>>,
                         path |-> path]]
        ELSE Failure("UnsupportedPathTypeError", "none")

(***************************************************************************)
(* Persistence store (wallet-storage.ts).  A stored text is                *)
(* <<"json", v>>, the JSON text of v, or <<"raw", s>>, the string s, which *)
(* is not JSON.                                                            *)
(***************************************************************************)
STORAGE_KEYS == {"wallets", "mnemonics", "chain"}

JSONstringify(v) == <<"json", v>>

Raw(s) == <<"raw", s>>

\* JSON.parse: the value, or a SyntaxError
JSONparse(text) ==
    IF text[1] = "json" THEN [threw |-> "none", value |-> text[2]]
    ELSE [threw |-> "SyntaxError", value |-> <<>>]

\* a getItem result in a condition: null and "" are falsy
Truthy(item) == item # <<>> /\ ~(item[1][1] = "raw" /\ item[1][2] = <<>>)

\* loadWalletsFromStorage: the three getItem results are written to the
\* console (logged) before they are examined.
\* Mutant: the chain record is not required (JSON.parse(null) is null).
loadWalletsFromStorage_NoChainCheck(st) ==
    LET storedWallets == st["wallets"]
        storedMnemonic == st["mnemonics"]
        storedChain == st["chain"]
        logged == <<storedWallets, storedMnemonic, storedChain>>
    IN  IF Truthy(storedWallets) /\ Truthy(storedMnemonic)
        THEN LET w == JSONparse(storedWallets[1])
                 m == JSONparse(storedMnemonic[1])
                 c == IF storedChain = <<>>
                      THEN [threw |-> "none", value |-> <<>>]
                      ELSE JSONparse(storedChain[1])
             IN  IF w.threw # "none" \/ m.threw # "none" \/ c.threw # "none"
                 THEN [threw |-> "SyntaxError", data |-> <<>>, logged |-> logged]
                 ELSE [threw |-> "none", logged |-> logged,
                       data |-> <<[wallets |-> w.value,
                                   mnemonics |-> m.value,
                                   chain |-> c.value]>>]
        ELSE [threw |-> "none", data |-> <<>>, logged |-> logged]

loadWalletsFromStorage(st) ==
    LET storedWallets == st["wallets"]
        storedMnemonic == st["mnemonics"]
        storedChain == st["chain"]
        logged == <<storedWallets, storedMnemonic, storedChain>>
    IN  IF Truthy(storedWallets) /\ Truthy(storedMnemonic) /\ Truthy(storedChain)
        THEN LET w == JSONparse(storedWallets[1])
                 m == JSONparse(storedMnemonic[1])
                 c == JSONparse(storedChain[1])
             IN  IF w.threw # "none" \/ m.threw # "none" \/ c.threw # "none"
                 THEN [threw |-> "SyntaxError", data |-> <<>>, logged |-> logged]
                 ELSE [threw |-> "none", logged |-> logged,
                       data |-> <<[wallets |-> w.value,
                                   mnemonics |-> m.value,
                                   chain |-> c.value]>>]
        ELSE [threw |-> "none", data |-> <<>>, logged |-> logged]

\* Mutant: the chain is never written.
SaveCalls_NoChain(ws, mnemonics, ch) ==
    <<[key |-> "wallets", text |-> <<"json", ws>>]>>
    \o (IF mnemonics # <<>>
        THEN <<[key |-> "mnemonics", text |-> <<"json", mnemonics[1]>>]>>
        ELSE <<>>)

\* The setItem calls of saveWalletsToStorage, in order.  An optional
\* argument is <<>> when omitted and <<value>> when given.
SaveCalls(ws, mnemonics, ch) ==
    <<[key |-> "wallets", text |-> JSONstringify(ws)]>>
    \o (IF mnemonics # <<>>
        THEN <<[key |-> "mnemonics", text |-> JSONstringify(mnemonics[1])]>>
        ELSE <<>>)
    \o (IF ch # <<>> /\ ch[1] # <<>>
        THEN <<[key |-> "chain", text |-> JSONstringify(ch[1])]>>
        ELSE <<>>)

RECURSIVE SetItems(_, _, _)
SetItems(st, calls, n) ==
    IF n = 0 THEN st
    ELSE [SetItems(st, calls, n - 1) EXCEPT ![calls[n].key] = <<calls[n].text>>]

\* failAt = k > 0: the k-th setItem throws (the quota is exceeded); the
\* calls before it have been stored.
saveWalletsToStorage(st, ws, mnemonics, ch, failAt) ==
    LET calls == SaveCalls(ws, mnemonics, ch)
    IN  IF failAt \in 1..Len(calls)
        THEN [storage |-> SetItems(st, calls, failAt - 1), threw |-> TRUE]
        ELSE [storage |-> SetItems(st, calls, Len(calls)), threw |-> FALSE]

\* Mutant: the chain record is removed as well.
clearWalletStorage_RemovesChain(st) == [k \in STORAGE_KEYS |-> <<>>]

\* Mutant: the wallets record is left in place.
clearWalletStorage_KeepsWallets(st) == [st EXCEPT !["mnemonics"] = <<>>]

clearWalletStorage(st) ==
    [st EXCEPT !["wallets"] = <<>>, !["mnemonics"] = <<>>]

\* Which of n setItem calls throws: 0 for none.
FailPoints(n) == 0..n

(***************************************************************************)
(* Session controller (WalletGenerator.tsx).                               *)
(***************************************************************************)
\* Array(12).fill(" ")
PlaceholderWords == [i \in 1..PLACEHOLDER_WORDS |-> <<SPACE>>]

\* Mutant: restored keys start revealed.
AllFalse_Revealed(ws) == [i \in 1..Len(ws) |-> TRUE]

AllFalse(ws) == [i \in 1..Len(ws) |-> FALSE]

\* derived: the handler called generateWalletFromMnemonic; error: the error
\* thrown in the handler, if any; escaped: nothing caught it; logged: the
\* arguments of the console.log call the handler made, <<>> if it made none;
\* removed: <<w>> when the wallet w was taken out of the collection by the
\* last deleteWallet and only addWallet has run since, <<>> otherwise.
Report(intent, toast, error, escaped) ==
    [intent |-> intent, toast |-> toast, error |-> error, escaped |-> escaped,
     derived |-> toast \in {"generated", "unsupported", "failed"},
     logged |-> <<>>, removed |-> <<>>, retried |-> FALSE]

Logging(report, logged) == [report EXCEPT !.logged = logged]

Removing(report, removed) == [report EXCEPT !.removed = removed]

\* The last intent failed with InvalidMnemonic, NoMnemonicAvailable,
\* UnsupportedPathType or DerivationFailed.
FailedIntent ==
    \/ last.toast \in {"invalid", "noMnemonic", "unsupported"}
    \/ last.error = "WalletDerivationError"

\* The report of an intent that follows a failed one.
Retrying(report) == [report EXCEPT !.retried = FailedIntent]

\* What localStorage may hold when a session starts.
StoredWallet(i) == generateWalletFromMnemonic(ETHEREUM, Join(UserWords12), i).wallet

InitialWalletsRecords ==
    { <<>>,
      <<Raw(<<"[", "{">>)>>,
      <<JSONstringify(<<StoredWallet(0), StoredWallet(1), StoredWallet(2)>>)>> }

InitialMnemonicsRecords ==
    { <<>>,
      <<Raw(<<"[", "\"">>)>>,
      <<JSONstringify(<<>>)>>,
      <<JSONstringify([i \in 1..PLACEHOLDER_WORDS |-> <<SPACE>>])>>,
      <<JSONstringify(UserWords12)>> }

InitialChainRecords ==
    { <<>>,
      <<Raw(<<>>)>>,
      <<Raw(<<"e", "t", "h">>)>>,
      <<JSONstringify(ETHEREUM)>>,
      <<JSONstringify(<<"0">>)>>,
      <<JSONstringify(<<>>)>>,
      <<JSONstringify(<<"e", "t", "h">>)>> }

InitialStorages ==
    { [k \in STORAGE_KEYS |->
          IF k = "wallets" THEN w ELSE IF k = "mnemonics" THEN m ELSE c] :
      w \in InitialWalletsRecords, m \in InitialMnemonicsRecords,
      c \in InitialChainRecords }

\* the useState initial values
InitialMemory ==
    /\ mnemonicWords = PlaceholderWords
    /\ wallets = <<>>
    /\ chain = <<>>
    /\ visiblePrivateKeys = <<>>
    /\ visiblePhrases = <<>>

EmptyStorage == [k \in STORAGE_KEYS |-> <<>>]

\* A run starts on any of the initial storages.  Throwing writes are followed
\* in the first session of the runs that start on empty storage; in the others
\* every write succeeds.
Init ==
    /\ InitialMemory
    /\ storage \in InitialStorages
    /\ phase = "mount"
    /\ storageFaults = (IF storage = EmptyStorage THEN 0 ELSE MaxStorageFaults)
    /\ last = Report("none", "none", "none", FALSE)

\* useEffect(() => {...}, []): runs once after the first render.  An error
\* thrown by the effect is uncaught and the component tree is unmounted.
Hydrate ==
    /\ phase = "mount"
    /\ UNCHANGED storageFaults
    /\ LET storedData == loadWalletsFromStorage(storage)
       IN  IF storedData.threw # "none"
           THEN /\ phase' = "crashed"
                /\ last' = Logging(Report("hydrate", "none", storedData.threw, TRUE),
                                   storedData.logged)
                /\ UNCHANGED <<memory, storage>>
           ELSE /\ phase' = "ready"
                /\ last' = Logging(Report("hydrate", "none", "none", FALSE),
                                   storedData.logged)
                /\ UNCHANGED storage
                /\ IF storedData.data # <<>>
                   THEN /\ mnemonicWords' = storedData.data[1].mnemonics
                        /\ wallets' = storedData.data[1].wallets
                        /\ visiblePrivateKeys' = AllFalse(storedData.data[1].wallets)
                        /\ visiblePhrases' = AllFalse(storedData.data[1].wallets)
                        /\ chain' = storedData.data[1].chain
                   ELSE UNCHANGED memory

\* A setItem call throws only while the model's budget of faults lasts.
Faulted(threw) ==
    /\ threw => storageFaults < MaxStorageFaults
    /\ storageFaults' = storageFaults + (IF threw THEN 1 ELSE 0)

\* Mutant: the selection is written to the chain record at once.
handleSelectChain_Persists(pathType) ==
    /\ phase = "ready"
    /\ Len(wallets) = 0
    /\ chain = <<>>
    /\ chain' = pathType
    /\ storage' = [storage EXCEPT !["chain"] = <<JSONstringify(pathType)>>]
    /\ last' = Report("selectChain", "selected", "none", FALSE)
    /\ UNCHANGED <<mnemonicWords, wallets, visiblePrivateKeys, visiblePhrases,
                   phase, storageFaults>>

\* ChainSelector is rendered while there is no wallet and no chain.
handleSelectChain(pathType) ==
    /\ phase = "ready"
    /\ Len(wallets) = 0
    /\ chain = <<>>
    /\ chain' = pathType
    /\ last' = Report("selectChain", "selected", "none", FALSE)
    /\ UNCHANGED <<mnemonicWords, wallets, visiblePrivateKeys, visiblePhrases,
                   storage, phase, storageFaults>>

\* WalletCard's delete button, for each rendered wallet.  setWallets has been
\* called when saveWalletsToStorage throws; the error leaves the handler.
handleDeleteWallet(index, failAt) ==
    /\ phase = "ready"
    /\ index \in 0..(Len(wallets) - 1)
    /\ LET updatedWallets == RemoveAt(wallets, index)
           saved == saveWalletsToStorage(storage, updatedWallets, <<>>, <<>>, failAt)
       IN  /\ wallets' = updatedWallets
           /\ storage' = saved.storage
           /\ Faulted(saved.threw)
           /\ IF saved.threw
              THEN /\ last' = Removing(Report("deleteWallet", "none",
                                                "QuotaExceededError", TRUE),
                                         <<wallets[index + 1]>>)
                   /\ UNCHANGED <<visiblePrivateKeys, visiblePhrases>>
              ELSE /\ visiblePrivateKeys' = RemoveAt(visiblePrivateKeys, index)
                   /\ visiblePhrases' = RemoveAt(visiblePhrases, index)
                   /\ last' = Removing(Report("deleteWallet", "deleted", "none", FALSE),
                                         <<wallets[index + 1]>>)
    /\ UNCHANGED <<mnemonicWords, chain, phase>>

\* "Clear Wallets" is rendered while there is a wallet.
handleClearWallets ==
    /\ phase = "ready"
    /\ Len(wallets) > 0
    /\ storage' = clearWalletStorage(storage)
    /\ wallets' = <<>>
    /\ mnemonicWords' = <<>>
    /\ visiblePrivateKeys' = <<>>
    /\ visiblePhrases' = <<>>
    /\ last' = Report("clearAll", "cleared", "none", FALSE)
    /\ UNCHANGED <<chain, phase, storageFaults>>

\* The model follows the session while at most MaxVisible keys are revealed.
Revealed(flags) == Cardinality({i \in 1..Len(flags) : flags[i]})

togglePrivateKeyVisibility(index) ==
    /\ phase = "ready"
    /\ index \in 0..(Len(wallets) - 1)
    /\ visiblePrivateKeys' =
           [i \in 1..Len(visiblePrivateKeys) |->
               IF i = index + 1 THEN ~visiblePrivateKeys[i] ELSE visiblePrivateKeys[i]]
    /\ Revealed(visiblePrivateKeys') <= MaxVisible
    /\ last' = Report("toggleVisibility", "none", "none", FALSE)
    /\ UNCHANGED <<mnemonicWords, wallets, chain, visiblePhrases, storage, phase,
                   storageFaults>>

\* The account index of the next wallet: wallets.length
\* Mutant: one past the collection length.
NextAccountIndex_Skips(ws) == Len(ws) + 1

\* Mutant: always the first account.
NextAccountIndex_Zero(ws) == 0

\* Mutant: the index of the last wallet is used again.
NextAccountIndex_Stuck(ws) == IF Len(ws) > 0 THEN Len(ws) - 1 ELSE 0

NextAccountIndex(ws) == Len(ws)

\* Mutant: only the empty list counts as no mnemonic.
NoMnemonic_OnlyEmpty(words) == words = <<>>

\* Mutant: the guard of "Add Wallet" always fires.
NoMnemonic_Always(words) == TRUE

\* !mnemonicWords || mnemonicWords.length === 0 || mnemonicWords[0] === " "
NoMnemonic(words) == words = <<>> \/ words[1] = <<SPACE>>

\* The toast of the catch block of handleGenerateWallet and handleAddWallet.
CatchToast(error) ==
    IF error = "UnsupportedPathTypeError" THEN "unsupported" ELSE "failed"

\* MnemonicInput is rendered while there is no wallet and a chain is selected;
\* mnemonicInput is what was typed, generated is what generateMnemonic()
\* returns if it is called.
handleGenerateWallet(mnemonicInput, generated, failAt) ==
    /\ phase = "ready"
    /\ Len(wallets) = 0
    /\ chain # <<>>
    /\ UNCHANGED <<chain, phase>>
    /\ LET trimmed == Trim(mnemonicInput)
       IN  IF trimmed # <<>> /\ ~validateMnemonic(trimmed)
           THEN /\ last' = Report("generateInitial", "invalid", "none", FALSE)
                /\ UNCHANGED <<mnemonicWords, wallets, visiblePrivateKeys,
                               visiblePhrases, storage, storageFaults>>
           ELSE
            LET mnemonic == IF trimmed # <<>> THEN trimmed ELSE generated
                words == Split(mnemonic)
                derived == generateWalletFromMnemonic(chain, mnemonic,
                                                      NextAccountIndex(wallets))
            IN  /\ mnemonicWords' = words
                /\ IF derived.threw # "none"
                   THEN /\ last' = Report("generateInitial", CatchToast(derived.threw),
                                          derived.threw, FALSE)
                        /\ UNCHANGED <<wallets, visiblePrivateKeys, visiblePhrases,
                                       storage, storageFaults>>
                   ELSE
                    LET updatedWallets == Append(wallets, derived.wallet)
                        saved == saveWalletsToStorage(storage, updatedWallets,
                                                      <<words>>, <<chain>>, failAt)
                    IN  /\ wallets' = updatedWallets
                        /\ storage' = saved.storage
                        /\ Faulted(saved.threw)
                        /\ IF saved.threw
                           THEN /\ last' = Report("generateInitial", "failed",
                                                  "QuotaExceededError", FALSE)
                                /\ UNCHANGED <<visiblePrivateKeys, visiblePhrases>>
                           ELSE /\ visiblePrivateKeys' = Append(visiblePrivateKeys, FALSE)
                                /\ visiblePhrases' = Append(visiblePhrases, FALSE)
                                /\ last' = Retrying(Report("generateInitial",
                                                  "generated", "none", FALSE))

\* "Add Wallet" is rendered while there is a wallet.
handleAddWallet(failAt) ==
    /\ phase = "ready"
    /\ Len(wallets) > 0
    /\ Len(wallets) < MaxWallets
    /\ UNCHANGED <<mnemonicWords, chain, phase>>
    /\ IF NoMnemonic(mnemonicWords)
       THEN /\ last' = Removing(Report("addWallet", "noMnemonic", "none", FALSE),
                                last.removed)
            /\ UNCHANGED <<wallets, visiblePrivateKeys, visiblePhrases, storage,
                           storageFaults>>
       ELSE
        LET derived == generateWalletFromMnemonic(chain, Join(mnemonicWords),
                                                  NextAccountIndex(wallets))
        IN  IF derived.threw # "none"
            THEN /\ last' = Removing(Report("addWallet", CatchToast(derived.threw),
                                            derived.threw, FALSE), last.removed)
                 /\ UNCHANGED <<wallets, visiblePrivateKeys, visiblePhrases, storage,
                           storageFaults>>
            ELSE
             LET updatedWallets == Append(wallets, derived.wallet)
                 saved == saveWalletsToStorage(storage, updatedWallets, <<>>, <<>>,
                                               failAt)
             IN  /\ wallets' = updatedWallets
                 /\ storage' = saved.storage
                 /\ Faulted(saved.threw)
                 /\ IF saved.threw
                    THEN /\ last' = Removing(Report("addWallet", "failed",
                                                    "QuotaExceededError", FALSE),
                                             last.removed)
                         /\ UNCHANGED <<visiblePrivateKeys, visiblePhrases>>
                    ELSE /\ visiblePrivateKeys' = Append(visiblePrivateKeys, FALSE)
                         /\ visiblePhrases' = Append(visiblePhrases, FALSE)
                         /\ last' = Removing(Report("addWallet", "generated",
                                                    "none", FALSE), last.removed)

\* The page is loaded again: a fresh component over the same localStorage.
\* Throwing writes are followed in the first session only.
Reload ==
    /\ phase \in {"ready", "crashed"}
    /\ mnemonicWords' = PlaceholderWords
    /\ wallets' = <<>>
    /\ chain' = <<>>
    /\ visiblePrivateKeys' = <<>>
    /\ visiblePhrases' = <<>>
    /\ phase' = "mount"
    /\ last' = Report("none", "none", "none", FALSE)
    /\ storageFaults' = MaxStorageFaults
    /\ UNCHANGED storage

SelectChain == \E pathType \in {SOLANA, ETHEREUM} : handleSelectChain(pathType)

DeleteWallet ==
    \E index \in 0..(Len(wallets) - 1), failAt \in FailPoints(1) :
        handleDeleteWallet(index, failAt)

ToggleVisibility ==
    \E index \in 0..(Len(wallets) - 1) : togglePrivateKeyVisibility(index)

GenerateInitial ==
    \E mnemonicInput \in Inputs, generated \in GeneratedPhrases,
       failAt \in FailPoints(3) :
        handleGenerateWallet(mnemonicInput, generated, failAt)

AddWallet == \E failAt \in FailPoints(1) : handleAddWallet(failAt)

Next ==
    \/ Hydrate
    \/ SelectChain
    \/ GenerateInitial
    \/ AddWallet
    \/ DeleteWallet
    \/ handleClearWallets
    \/ ToggleVisibility
    \/ Reload

Spec == Init /\ [][Next]_vars

(***************************************************************************)
(* The sessions of a browser whose localStorage starts empty: everything   *)
(* in storage was written by this program.  Throwing writes are followed   *)
(* in every session.                                                       *)
(***************************************************************************)
FreshInit ==
    /\ InitialMemory
    /\ storage = EmptyStorage
    /\ phase = "mount"
    /\ storageFaults = 0
    /\ last = Report("none", "none", "none", FALSE)

\* The page is loaded again; a later write may still throw.
ReloadUnderFaults ==
    /\ phase \in {"ready", "crashed"}
    /\ mnemonicWords' = PlaceholderWords
    /\ wallets' = <<>>
    /\ chain' = <<>>
    /\ visiblePrivateKeys' = <<>>
    /\ visiblePhrases' = <<>>
    /\ phase' = "mount"
    /\ last' = Report("none", "none", "none", FALSE)
    /\ UNCHANGED <<storage, storageFaults>>

FreshNext ==
    \/ Hydrate
    \/ SelectChain
    \/ GenerateInitial
    \/ AddWallet
    \/ DeleteWallet
    \/ handleClearWallets
    \/ ToggleVisibility
    \/ ReloadUnderFaults

FreshSpec == FreshInit /\ [][FreshNext]_vars

(***************************************************************************)
(* One session, started from empty localStorage: the page is not loaded    *)
(* again.                                                                  *)
(***************************************************************************)
SessionNext ==
    \/ Hydrate
    \/ SelectChain
    \/ GenerateInitial
    \/ AddWallet
    \/ DeleteWallet
    \/ handleClearWallets
    \/ ToggleVisibility

SessionSpec == FreshInit /\ [][SessionNext]_vars

\* One session from empty localStorage in which "Delete" is never pressed.
NoDeleteNext ==
    \/ Hydrate
    \/ SelectChain
    \/ GenerateInitial
    \/ AddWallet
    \/ handleClearWallets
    \/ ToggleVisibility

NoDeleteSpec == FreshInit /\ [][NoDeleteNext]_vars

(***************************************************************************)
(* Intents that are not serialized.  handleAddWallet reads wallets,        *)
(* mnemonicWords, chain and the visibility flags from the closure of the   *)
(* render it was created in: two "Add Wallet" intents dispatched on the    *)
(* same render both run against that snapshot.  While they are in flight   *)
(* last holds the snapshot, the number of calls still to run, the account  *)
(* indexes derived and the lengths of the lists written.                   *)
(***************************************************************************)
Snapshot ==
    [wallets |-> wallets, mnemonicWords |-> mnemonicWords, chain |-> chain,
     visiblePrivateKeys |-> visiblePrivateKeys, visiblePhrases |-> visiblePhrases]

DispatchTwoAdds ==
    /\ phase = "ready"
    /\ Len(wallets) > 0
    /\ Len(wallets) < MaxWallets
    /\ phase' = "inFlight"
    /\ last' = Report("addWallet", "none", "none", FALSE)
                  @@ [snapshot |-> Snapshot, inFlight |-> 2,
                      indexes |-> <<>>, writes |-> <<>>]
    /\ UNCHANGED <<memory, storage, storageFaults>>

\* One call of handleAddWallet created in the render of the snapshot.
handleAddWalletOn(snapshot, failAt) ==
    /\ phase = "inFlight"
    /\ last.inFlight > 0
    /\ phase' = IF last.inFlight = 1 THEN "ready" ELSE "inFlight"
    /\ UNCHANGED <<mnemonicWords, chain>>
    /\ IF NoMnemonic(snapshot.mnemonicWords)
       THEN /\ last' = [last EXCEPT !.inFlight = @ - 1, !.toast = "noMnemonic"]
            /\ UNCHANGED <<wallets, visiblePrivateKeys, visiblePhrases, storage,
                           storageFaults>>
       ELSE
        LET accountIndex == NextAccountIndex(snapshot.wallets)
            derived == generateWalletFromMnemonic(snapshot.chain,
                                                  Join(snapshot.mnemonicWords),
                                                  accountIndex)
        IN  IF derived.threw # "none"
            THEN /\ last' = [last EXCEPT !.inFlight = @ - 1,
                                         !.toast = CatchToast(derived.threw),
                                         !.error = derived.threw,
                                         !.indexes = Append(@, accountIndex)]
                 /\ UNCHANGED <<wallets, visiblePrivateKeys, visiblePhrases, storage,
                                storageFaults>>
            ELSE
             LET updatedWallets == Append(snapshot.wallets, derived.wallet)
                 saved == saveWalletsToStorage(storage, updatedWallets, <<>>, <<>>,
                                               failAt)
             IN  /\ wallets' = updatedWallets
                 /\ storage' = saved.storage
                 /\ Faulted(saved.threw)
                 /\ IF saved.threw
                    THEN /\ last' = [last EXCEPT !.inFlight = @ - 1,
                                                 !.toast = "failed",
                                                 !.error = "QuotaExceededError",
                                                 !.indexes = Append(@, accountIndex)]
                         /\ UNCHANGED <<visiblePrivateKeys, visiblePhrases>>
                    ELSE /\ visiblePrivateKeys' =
                               Append(snapshot.visiblePrivateKeys, FALSE)
                         /\ visiblePhrases' = Append(snapshot.visiblePhrases, FALSE)
                         /\ last' = [last EXCEPT
                                         !.inFlight = @ - 1,
                                         !.toast = "generated",
                                         !.error = "none",
                                         !.indexes = Append(@, accountIndex),
                                         !.writes = Append(@, Len(updatedWallets))]

\* Mutant: each call runs against the state the call before it left.
ApplyInFlight_Serialized == \E failAt \in FailPoints(1) : handleAddWalletOn(Snapshot, failAt)

ApplyInFlight == \E failAt \in FailPoints(1) : handleAddWalletOn(last.snapshot, failAt)

UnserializedNext ==
    \/ Hydrate
    \/ SelectChain
    \/ GenerateInitial
    \/ AddWallet
    \/ handleClearWallets
    \/ ToggleVisibility
    \/ DispatchTwoAdds
    \/ ApplyInFlight

UnserializedSpec == FreshInit /\ [][UnserializedNext]_vars

(***************************************************************************)
(* generateWalletFromMnemonic called on its own (wallet-derivation.ts): a  *)
(* call is drawn from the path types, mnemonics and account indexes below; *)
(* last holds the arguments and, once the call is over, its outcome.       *)
(***************************************************************************)
PathTypes == {SOLANA, ETHEREUM, <<"0">>, <<>>, <<"e", "t", "h">>}

Mnemonics == ValidPhrases \cup {Join(BadChecksumWords)}

DeriveInit ==
    /\ InitialMemory
    /\ storage = EmptyStorage
    /\ storageFaults = 0
    /\ phase = "derive"
    /\ \E pathType \in PathTypes, mnemonic \in Mnemonics,
          accountIndex \in 0..MaxAccountIndex :
           last = [pathType |-> pathType, mnemonic |-> mnemonic,
                   accountIndex |-> accountIndex, threw |-> "none",
                   cause |-> "none", wallet |-> <<>>]

Derive ==
    /\ phase = "derive"
    /\ LET result == generateWalletFromMnemonic(last.pathType, last.mnemonic,
                                                last.accountIndex)
       IN  last' = [last EXCEPT
                       !.threw = result.threw,
                       !.cause = IF result.threw = "none" THEN "none" ELSE result.cause,
                       !.wallet = result.wallet]
    /\ phase' = "derived"
    /\ UNCHANGED <<memory, storage, storageFaults>>

DeriveSpec == DeriveInit /\ [][Derive]_vars

Intents == {"generateInitial", "addWallet", "deleteWallet", "clearAll"}

DerivationErrors == {"UnsupportedPathTypeError", "WalletDerivationError"}

\* the value a present record encodes, when it is the JSON text of a value
IsJson(item) == item # <<>> /\ item[1][1] = "json"

\* the persisted wallets, an absent record counting as no wallets
PersistedWallets == IF storage["wallets"] = <<>> THEN <<>> ELSE storage["wallets"][1][2]

\* the step is the mount effect
HydrateStep == phase = "mount" /\ phase' # "mount"

\* C1: if the derivation inside generateInitial fails, the mnemonic, wallets,
\* visibility flags, chain and the three persisted records are as before.
C1_UnchangedOnDerivationFailure ==
    [][(last'.intent = "generateInitial" /\ last'.error \in DerivationErrors)
        => UNCHANGED <<mnemonicWords, wallets, visiblePrivateKeys, visiblePhrases,
                       chain, storage>>]_vars

\* C2: if the storage write fails in generateInitial, addWallet or
\* deleteWallet, the wallets are as before and the flags stay aligned.
C2_NoWalletWithoutWrite ==
    [][(last'.intent \in {"generateInitial", "addWallet", "deleteWallet"}
        /\ last'.error = "QuotaExceededError")
        => /\ wallets' = wallets
           /\ Len(visiblePrivateKeys') = Len(wallets')
           /\ Len(visiblePhrases') = Len(wallets')]_vars

\* C3: generateInitial with a non-empty input that is no valid BIP39 phrase
\* reports InvalidMnemonic, derives nothing and changes neither the session
\* state nor the persisted records.
C3_InvalidMnemonicRejected ==
    [][last'.intent = "generateInitial" =>
       \A input \in Inputs, generated \in GeneratedPhrases, failAt \in FailPoints(3) :
        (/\ Trim(input) # <<>>
         /\ Trim(input) \notin ValidPhrases
         /\ handleGenerateWallet(input, generated, failAt))
        => /\ last'.toast = "invalid"
           /\ ~last'.derived
           /\ wallets' = <<>>
           /\ UNCHANGED <<memory, storage>>]_vars

C3_Witness ==
    /\ last.intent = "generateInitial"
    /\ last.toast = "invalid"
    /\ wallets = <<>>

\* C4: hydrate on a snapshot whose three records are all persisted restores
\* exactly its wallets, in order, its mnemonic and its chain, with one false
\* visibility flag per wallet.
C4_HydrationRoundTrip ==
    [][(HydrateStep /\ \A k \in STORAGE_KEYS : IsJson(storage[k]))
        => /\ wallets' = storage["wallets"][1][2]
           /\ mnemonicWords' = storage["mnemonics"][1][2]
           /\ chain' = storage["chain"][1][2]
           /\ Len(visiblePrivateKeys') = Len(wallets')
           /\ \A i \in 1..Len(wallets') : visiblePrivateKeys'[i] = FALSE
           /\ visiblePhrases' = visiblePrivateKeys']_vars

C4_Witness ==
    /\ last.intent = "hydrate"
    /\ phase = "ready"
    /\ Len(wallets) = 3
    /\ wallets = storage["wallets"][1][2]
    /\ mnemonicWords = UserWords12
    /\ chain = ETHEREUM
    /\ visiblePrivateKeys = <<FALSE, FALSE, FALSE>>

\* C5: if one of the three records is absent when hydrate runs, every field
\* of the session stays at its initial value.
C5_PartialSnapshotRejected ==
    [][(HydrateStep /\ \E k \in STORAGE_KEYS : storage[k] = <<>>)
        => /\ phase' = "ready"
           /\ mnemonicWords' = PlaceholderWords
           /\ wallets' = <<>>
           /\ chain' = <<>>
           /\ visiblePrivateKeys' = <<>>
           /\ visiblePhrases' = <<>>]_vars

C5_Witness ==
    /\ last.intent = "hydrate"
    /\ phase = "ready"
    /\ IsJson(storage["wallets"])
    /\ IsJson(storage["mnemonics"])
    /\ storage["chain"] = <<>>
    /\ wallets = <<>>
    /\ chain = <<>>

\* C6: if the three records are present and one of them is not JSON, the
\* load reports no data, no error escapes, and the session stays initial.
C6_UnparseableTreatedAsAbsent ==
    [][(/\ HydrateStep
        /\ \A k \in STORAGE_KEYS : storage[k] # <<>>
        /\ \E k \in STORAGE_KEYS : ~IsJson(storage[k]))
        => /\ last'.error = "none"
           /\ phase' = "ready"
           /\ UNCHANGED memory]_vars

\* C7: the visibility list has as many entries as the wallet collection.
C7_VisibilityAligned ==
    /\ Len(visiblePrivateKeys) = Len(wallets)
    /\ Len(visiblePhrases) = Len(wallets)

\* C8: after a completed generateInitial, addWallet, deleteWallet or
\* clearAll, the persisted wallets are the wallets in memory.
C8_PersistedMirrorsWallets ==
    (last.intent \in Intents /\ last.toast \in {"generated", "deleted", "cleared"})
        => PersistedWallets = wallets

C8_Witness ==
    /\ last.intent = "deleteWallet"
    /\ last.toast = "deleted"
    /\ Len(wallets) = 2
    /\ PersistedWallets = wallets

\* C9: a successful generateInitial sets the mnemonic to the validated input,
\* or to the generated phrase when the input is empty, appends the wallet
\* derived at index 0 and one false flag, and leaves all three records
\* persisted and equal to the wallets, mnemonic and chain in memory.
C9_GenerateInitial ==
    [][(last'.intent = "generateInitial" /\ last'.toast = "generated") =>
       \A input \in Inputs, generated \in GeneratedPhrases, failAt \in FailPoints(3) :
        handleGenerateWallet(input, generated, failAt)
        => LET mnemonic == IF Trim(input) = <<>> THEN generated ELSE Trim(input)
           IN  /\ mnemonic \in ValidPhrases
               /\ Join(mnemonicWords') = mnemonic
               /\ wallets = <<>>
               /\ wallets' = <<generateWalletFromMnemonic(chain, mnemonic, 0).wallet>>
               /\ visiblePrivateKeys' = Append(visiblePrivateKeys, FALSE)
               /\ visiblePhrases' = Append(visiblePhrases, FALSE)
               /\ chain' = chain
               /\ storage' = [k \in STORAGE_KEYS |->
                     <<<<"json", IF k = "wallets" THEN wallets'
                                ELSE IF k = "mnemonics" THEN mnemonicWords'
                                ELSE chain'>>>>]]_vars

C9_Witness ==
    /\ last.intent = "generateInitial"
    /\ last.toast = "generated"
    /\ Len(wallets) = 1
    /\ mnemonicWords = GeneratedWords
    /\ \A k \in STORAGE_KEYS : IsJson(storage[k])

\* C10: a successful addWallet on N >= 1 wallets yields N+1 wallets and N+1
\* flags; the first N of each are as before, the new wallet is the one
\* derived at index N and its flag is false.
C10_AppendInvariant ==
    [][(last'.intent = "addWallet" /\ last'.toast = "generated")
        => LET N == Len(wallets)
           IN  /\ N >= 1
               /\ Len(wallets') = N + 1
               /\ Len(visiblePrivateKeys') = N + 1
               /\ SubSeq(wallets', 1, N) = wallets
               /\ SubSeq(visiblePrivateKeys', 1, N) = visiblePrivateKeys
               /\ wallets'[N + 1] =
                      generateWalletFromMnemonic(chain, Join(mnemonicWords), N).wallet
               /\ visiblePrivateKeys'[N + 1] = FALSE]_vars

\* C11: addWallet and deleteWallet leave the persisted mnemonics and chain
\* records as they were, and every change they make to the wallet collection
\* is written to the persisted wallets record.
C11_OnlyWalletsRecordRewritten ==
    [][last'.intent \in {"addWallet", "deleteWallet"}
        => /\ storage'["mnemonics"] = storage["mnemonics"]
           /\ storage'["chain"] = storage["chain"]
           /\ (wallets' # wallets => storage'["wallets"] = <<<<"json", wallets'>>>>)]_vars

\* C12: deleteWallet(i) on N wallets removes position i from the wallets and
\* from both flag lists, keeps the rest in order and untouched, and persists
\* the resulting list.
C12_DeleteRemovesPosition ==
    [][last'.intent = "deleteWallet" =>
       \E i \in 0..(Len(wallets) - 1) :
          /\ Len(wallets') = Len(wallets) - 1
          /\ Len(visiblePrivateKeys') = Len(wallets) - 1
          /\ Len(visiblePhrases') = Len(wallets) - 1
          /\ \A k \in 1..(Len(wallets) - 1) :
                /\ wallets'[k] = wallets[IF k <= i THEN k ELSE k + 1]
                /\ visiblePrivateKeys'[k] = visiblePrivateKeys[IF k <= i THEN k ELSE k + 1]
                /\ visiblePhrases'[k] = visiblePhrases[IF k <= i THEN k ELSE k + 1]
          /\ storage'["wallets"] = <<<<"json", wallets'>>>>]_vars

C14_NoMnemonicAvailable ==
    [][(/\ last'.intent = "addWallet"
        /\ (mnemonicWords = <<>> \/ mnemonicWords[1] = <<SPACE>>))
        => /\ last'.toast = "noMnemonic"
           /\ ~last'.derived
           /\ UNCHANGED <<wallets, visiblePrivateKeys, visiblePhrases, storage>>]_vars

C14_Witness ==
    /\ last.intent = "addWallet"
    /\ last.toast = "noMnemonic"
    /\ Len(wallets) >= 1
    /\ mnemonicWords # <<>>
    /\ \A i \in 1..Len(mnemonicWords) : mnemonicWords[i] = <<SPACE>>

\* C15: if the derivation inside addWallet fails (the chain is neither "501"
\* nor "60"), the wallets, flags, mnemonic, chain and persisted records are
\* unchanged.
C15_AddUnchangedOnDerivationFailure ==
    [][(/\ last'.intent = "addWallet"
        /\ \/ last'.error \in DerivationErrors
           \/ /\ mnemonicWords # <<>>
              /\ mnemonicWords[1] # <<SPACE>>
              /\ chain \notin {SOLANA, ETHEREUM})
        => /\ last'.error \in DerivationErrors
           /\ UNCHANGED <<memory, storage>>]_vars

C15_Witness ==
    /\ last.intent = "addWallet"
    /\ last.error \in DerivationErrors
    /\ last.derived
    /\ Len(wallets) >= 1
    /\ mnemonicWords = UserWords12
    /\ PersistedWallets = wallets

\* C16: a derivation with a path type other than "501" and "60" (the empty
\* string and non-numeric strings included) fails with UnsupportedPathType,
\* never with DerivationFailed.
C16_BranchMissIsUnsupportedPathType ==
    [][(/\ last'.intent \in {"generateInitial", "addWallet"}
        /\ last'.derived
        /\ chain \notin {SOLANA, ETHEREUM})
        => last'.error = "UnsupportedPathTypeError"]_vars

Positional(ws, ch, words) ==
    \A i \in 1..Len(ws) :
        ws[i] = generateWalletFromMnemonic(ch, Join(words), i - 1).wallet

\* C18 as stated: in every reachable state with at least one wallet, the
\* wallet at position i equals derive(chain, activeMnemonic, i).
C18_ReconstructibleByPosition ==
    Len(wallets) >= 1 => Positional(wallets, chain, mnemonicWords)

\* C18 as amended: a wallet appended by generateInitial or addWallet is the
\* one derived from the chain and the active mnemonic at the collection
\* length; the wallets before it are kept, so appending preserves the
\* positional correspondence (deleteWallet and a restored snapshot need not).
C18_AppendedAtCollectionLength ==
    [][(/\ last'.intent \in {"generateInitial", "addWallet"}
        /\ Len(wallets') = Len(wallets) + 1)
        => LET N == Len(wallets)
           IN  /\ wallets'[N + 1] =
                     generateWalletFromMnemonic(chain', Join(mnemonicWords'), N).wallet
               /\ SubSeq(wallets', 1, N) = wallets
               /\ Positional(wallets, chain, mnemonicWords)
                     => Positional(wallets', chain', mnemonicWords')]_vars

C18_Witness ==
    /\ last.intent = "addWallet"
    /\ last.toast = "generated"
    /\ last.removed = <<>>
    /\ Len(wallets) = 2
    /\ Positional(wallets, chain, mnemonicWords)

\* C19: whenever the active mnemonic is set it has exactly 12 words; a valid
\* phrase of another length is not accepted.
C19_TwelveWords ==
    mnemonicWords # <<>> => Len(mnemonicWords) = 12

\* C20: no operation writes a private key or a mnemonic to the console: what
\* the last handler logged holds neither a stored wallet (with its private
\* key) nor a stored mnemonic word.
C20_NoSecretsLogged ==
    last.logged # <<>>
        => /\ ~(IsJson(last.logged[1]) /\ Len(last.logged[1][1][2]) > 0)
           /\ ~(/\ IsJson(last.logged[2])
                /\ \E i \in 1..Len(last.logged[2][1][2]) :
                      last.logged[2][1][2][i] # <<SPACE>>)

\* the private key of the wallet at position k is shown:
\* visiblePrivateKeys[index] || false
Visible(flags, k) == k \in 1..Len(flags) /\ flags[k]

\* C21: a wallet's flag is false when the wallet is appended or restored, and
\* only toggleVisibility of that wallet turns it true: no other intent makes
\* a remaining wallet's hidden key visible, deleteWallet of another wallet
\* included.
C21_HiddenByDefault ==
    [][/\ (/\ last'.intent \in {"generateInitial", "addWallet"}
           /\ Len(wallets') = Len(wallets) + 1)
          => /\ ~Visible(visiblePrivateKeys', Len(wallets'))
             /\ \A k \in 1..Len(wallets) :
                   Visible(visiblePrivateKeys', k) => Visible(visiblePrivateKeys, k)
       /\ HydrateStep
          => \A k \in 1..Len(wallets') : ~Visible(visiblePrivateKeys', k)
       /\ last'.intent = "deleteWallet"
          => \A index \in 0..(Len(wallets) - 1), failAt \in FailPoints(1) :
                handleDeleteWallet(index, failAt)
                => \A k \in 1..Len(wallets') :
                      Visible(visiblePrivateKeys', k)
                      => Visible(visiblePrivateKeys, IF k <= index THEN k ELSE k + 1)
       /\ last'.intent = "toggleVisibility"
          => \A index \in 0..(Len(wallets) - 1) :
                togglePrivateKeyVisibility(index)
                => \A k \in 1..Len(wallets) :
                      (k # index + 1 /\ Visible(visiblePrivateKeys', k))
                      => Visible(visiblePrivateKeys, k)
       /\ (last'.intent \notin {"deleteWallet", "toggleVisibility"} /\ wallets' = wallets)
          => \A k \in 1..Len(wallets) :
                Visible(visiblePrivateKeys', k) => Visible(visiblePrivateKeys, k)]_vars

\* C22: toggleVisibility(i) negates the flag at position i and nothing else:
\* the other flags, the wallets, the mnemonic, the chain and the persisted
\* records are unchanged, a second toggle restores the flags, and no intent
\* writes anything but the wallets, the mnemonic and the chain to storage.
C22_ToggleFlipsOneFlag ==
    [][/\ last'.intent = "toggleVisibility"
          => \A index \in 0..(Len(wallets) - 1) :
                togglePrivateKeyVisibility(index)
                => /\ Len(visiblePrivateKeys') = Len(visiblePrivateKeys)
                   /\ index + 1 \in 1..Len(visiblePrivateKeys)
                   /\ \A k \in 1..Len(visiblePrivateKeys) :
                         visiblePrivateKeys'[k] =
                            (IF k = index + 1 THEN ~visiblePrivateKeys[k]
                                              ELSE visiblePrivateKeys[k])
                   /\ [k \in 1..Len(visiblePrivateKeys') |->
                         IF k = index + 1 THEN ~visiblePrivateKeys'[k]
                                          ELSE visiblePrivateKeys'[k]] = visiblePrivateKeys
                   /\ UNCHANGED <<wallets, mnemonicWords, chain, visiblePhrases,
                                  storage>>
       /\ DOMAIN storage' = STORAGE_KEYS
       /\ storage'["wallets"] \in {storage["wallets"], <<>>, <<<<"json", wallets'>>>>}
       /\ storage'["mnemonics"] \in
             {storage["mnemonics"], <<>>, <<<<"json", mnemonicWords'>>>>}
       /\ storage'["chain"] \in {storage["chain"], <<<<"json", chain'>>>>}]_vars

\* C23: selectChain sets the selected chain in memory and nothing else: the
\* wallets, the mnemonic, the flags and the three persisted records, the
\* chain record included, are unchanged.
C23_SelectChainOnlyInMemory ==
    [][last'.intent = "selectChain"
        => /\ chain' \in {SOLANA, ETHEREUM}
           /\ UNCHANGED <<wallets, mnemonicWords, visiblePrivateKeys,
                          visiblePhrases, storage>>]_vars

C23_Witness ==
    /\ last.intent = "selectChain"
    /\ chain = SOLANA
    /\ storage["chain"] = <<<<"json", ETHEREUM>>>>
    /\ wallets = <<>>

\* C24: within a session a selected chain is never changed, and in the
\* sessions of a browser whose storage this program alone has written every
\* wallet of the collection has a path with the coin type of the selected
\* chain.
C24_SingleChainPerSession ==
    [][/\ (chain # <<>> /\ phase = "ready" /\ phase' = "ready") => chain' = chain
       /\ \A i \in 1..Len(wallets') :
             \E n \in 0..MaxWallets : wallets'[i].path = DerivationPath(chain', n)]_vars

\* C25: no error is fatal.  After an intent has failed with InvalidMnemonic,
\* NoMnemonicAvailable, UnsupportedPathType or DerivationFailed the session is
\* still ready and nothing escaped; and whatever failed before, a
\* generateInitial under a supported chain with an empty or a valid input
\* whose writes go through succeeds and leaves its whole snapshot in storage.
C25_NoErrorFatal ==
    [][/\ FailedIntent' => phase' = "ready" /\ ~last'.escaped
       /\ (/\ chain \in {SOLANA, ETHEREUM}
           /\ \E mnemonicInput \in {<<>>, Join(UserWords12)},
                 generated \in GeneratedPhrases :
                  handleGenerateWallet(mnemonicInput, generated, 0))
          => /\ last'.toast = "generated"
             /\ phase' = "ready"
             /\ Len(wallets') = 1
             /\ loadWalletsFromStorage(storage').data =
                   <<[wallets |-> wallets', mnemonics |-> mnemonicWords',
                      chain |-> chain']>>]_vars

\* a generateInitial has succeeded right after a failed intent
C25_Witness ==
    /\ last.intent = "generateInitial"
    /\ last.toast = "generated"
    /\ last.retried
    /\ Len(wallets) = 1
    /\ IsJson(storage["wallets"])

\* the digits of an account index below 100
TwoDigits(n) ==
    IF n < 10 THEN <<ToString(n)>> ELSE <<ToString(n \div 10), ToString(n % 10)>>

\* m/44'/{pathType}'/0'/{digits}'
Bip44Path(pathType, digits) ==
    <<"m", "/", "4", "4", "'">> \o <<"/">> \o pathType \o <<"'">>
        \o <<"/", "0", "'">> \o <<"/">> \o digits \o <<"'">>

\* C27: for path type "501" or "60" and an account index from 0 on, the
\* returned wallet records the path m/44'/{pathType}'/0'/{accountIndex}', four
\* components each followed by the hardening mark, and a derivation with
\* another (pathType, accountIndex) pair records another path.
C27_RecordedPath ==
    (phase = "derived" /\ last.pathType \in {SOLANA, ETHEREUM}) =>
        /\ last.threw = "none"
        /\ last.wallet.path = Bip44Path(last.pathType, TwoDigits(last.accountIndex))
        /\ LET path == last.wallet.path
               slashes == {k \in 1..Len(path) : path[k] = "/"}
               marks == {k \in 1..Len(path) : path[k] = "'"}
           IN  /\ Cardinality(slashes) = 4
               /\ Cardinality(marks) = 4
               /\ Len(path) \in marks
               /\ \A k \in slashes : k > 2 => k - 1 \in marks
        /\ \A pathType \in {SOLANA, ETHEREUM}, accountIndex \in 0..MaxAccountIndex :
              <<pathType, accountIndex>> # <<last.pathType, last.accountIndex>>
                 => generateWalletFromMnemonic(pathType, last.mnemonic,
                                               accountIndex).wallet.path
                       # last.wallet.path

C27_Witness ==
    /\ phase = "derived"
    /\ last.pathType = SOLANA
    /\ last.accountIndex = MaxAccountIndex
    /\ last.threw = "none"
    /\ last.wallet.path[Len(last.wallet.path)] = "'"

\* C28: chain separation.  For every mnemonic and account index the Solana
\* wallet and the Ethereum wallet differ in public key, in private key and
\* in recorded path.
C28_ChainSeparation ==
    (phase = "derived" /\ last.pathType \in {SOLANA, ETHEREUM}) =>
        LET otherChain == IF last.pathType = SOLANA THEN ETHEREUM ELSE SOLANA
            other == generateWalletFromMnemonic(otherChain, last.mnemonic,
                                                last.accountIndex)
        IN  /\ last.threw = "none"
            /\ other.threw = "none"
            /\ other.wallet.publicKey # last.wallet.publicKey
            /\ other.wallet.privateKey # last.wallet.privateKey
            /\ other.wallet.path # last.wallet.path

C28_Witness ==
    /\ phase = "derived"
    /\ last.pathType = ETHEREUM
    /\ last.mnemonic = Join(UserWords12)
    /\ last.accountIndex = 0
    /\ last.wallet =
          generateWalletFromMnemonic(ETHEREUM, Join(UserWords12), 0).wallet
    /\ last.wallet # <<>>

\* a path type made of decimal digits, at least one
DecimalPathType(pathType) ==
    pathType # <<>> /\ \A k \in 1..Len(pathType) : pathType[k] \in Digits

\* C29: a call of derive returns a complete wallet or throws one of the two
\* errors of the module and returns nothing; a failure that is not the
\* unsupported-path-type branch (here: the library refusing the path) is a
\* DerivationFailed that carries the library's error as its cause.
C29_FailuresAreWrapped ==
    phase = "derived" =>
        /\ last.threw \in {"none", "UnsupportedPathTypeError", "WalletDerivationError"}
        /\ last.threw # "none" => last.wallet = <<>>
        /\ last.threw = "none" =>
              /\ DOMAIN last.wallet = {"publicKey", "privateKey", "path"}
              /\ \A field \in DOMAIN last.wallet : last.wallet[field] # <<>>
        /\ ~DecimalPathType(last.pathType) =>
              /\ last.threw = "WalletDerivationError"
              /\ last.cause = "Invalid derivation path"
        /\ last.threw = "WalletDerivationError" => last.cause # "none"

C29_Witness ==
    /\ phase = "derived"
    /\ last.pathType = <<"e", "t", "h">>
    /\ last.threw = "WalletDerivationError"
    /\ last.cause = "Invalid derivation path"
    /\ last.wallet = <<>>

\* C30: reload invariant.  In the sessions that start from empty storage,
\* whenever there is at least one wallet the three records are present and
\* loading them gives exactly the current wallets, mnemonic and chain.
C30_ReloadReproducesSession ==
    Len(wallets) >= 1 =>
        /\ \A k \in STORAGE_KEYS : IsJson(storage[k])
        /\ loadWalletsFromStorage(storage).data =
              <<[wallets |-> wallets, mnemonics |-> mnemonicWords, chain |-> chain]>>

\* C31: in a session started from empty storage every wallet of the
\* collection is the wallet derived from the selected chain and the active
\* mnemonic at the account index its path records.
C31_DerivedFromActiveMnemonic ==
    \A i \in 1..Len(wallets) :
        \E k \in 0..MaxWallets :
            /\ wallets[i].path = Bip44Path(chain, TwoDigits(k))
            /\ generateWalletFromMnemonic(chain, Join(mnemonicWords), k).threw = "none"
            /\ wallets[i] =
                  generateWalletFromMnemonic(chain, Join(mnemonicWords), k).wallet

C31_Witness ==
    /\ last.intent = "addWallet"
    /\ last.toast = "generated"
    /\ Len(wallets) = 2
    /\ chain = SOLANA
    /\ wallets[2] = generateWalletFromMnemonic(SOLANA, Join(mnemonicWords), 1).wallet
    /\ wallets[2].path = Bip44Path(SOLANA, <<"1">>)

\* C32: in a session started from empty storage, while there is a wallet the
\* active mnemonic has words, none of them blank, and the chain is "501" or
\* "60"; no derivation runs without a selected chain, and "Add Wallet" never
\* answers that there is no mnemonic.
C32_WalletsImplyMnemonicAndChain ==
    /\ Len(wallets) >= 1 =>
          /\ mnemonicWords # <<>>
          /\ \A k \in 1..Len(mnemonicWords) :
                mnemonicWords[k] # <<>> /\ mnemonicWords[k] # <<SPACE>>
          /\ chain \in {SOLANA, ETHEREUM}
    /\ last.derived => chain \in {SOLANA, ETHEREUM}
    /\ last.intent = "addWallet" => last.toast # "noMnemonic"

C32_Witness ==
    /\ last.intent = "addWallet"
    /\ last.toast = "generated"
    /\ chain = ETHEREUM
    /\ mnemonicWords = UserWords12
    /\ Len(wallets) = 2

\* C33: deleteWallet on the last remaining wallet keeps the mnemonic and the
\* chain in memory and leaves the mnemonics and chain records as they are,
\* next to a wallets record holding the empty list; a hydrate that finds such
\* a snapshot restores the mnemonic and the chain with no wallets.
C33_DeleteLastKeepsSnapshot ==
    [][/\ (last'.intent = "deleteWallet" /\ Len(wallets) = 1) =>
             /\ wallets' = <<>>
             /\ mnemonicWords' = mnemonicWords
             /\ chain' = chain
             /\ storage'["wallets"] = <<<<"json", <<>>>>>>
             /\ storage'["mnemonics"] = storage["mnemonics"]
             /\ storage'["chain"] = storage["chain"]
       /\ (/\ HydrateStep
           /\ storage["wallets"] = <<<<"json", <<>>>>>>
           /\ IsJson(storage["mnemonics"])
           /\ IsJson(storage["chain"])) =>
             /\ phase' = "ready"
             /\ wallets' = <<>>
             /\ mnemonicWords' = storage["mnemonics"][1][2]
             /\ chain' = storage["chain"][1][2]]_vars

\* C34: clearAll keeps the chain in memory and leaves no record but the
\* chain record; a hydrate that finds neither wallets nor mnemonic starts
\* from the initial state with no chain selected; and the chain a hydrate
\* does restore is the one written with the stored wallets, never a record
\* retained from before.
C34_RetainedChainNotReadBack ==
    [][/\ last'.intent = "clearAll" =>
             /\ chain' = chain
             /\ storage'["wallets"] = <<>>
             /\ storage'["mnemonics"] = <<>>
             /\ storage'["chain"] = storage["chain"]
       /\ (HydrateStep /\ storage["wallets"] = <<>> /\ storage["mnemonics"] = <<>>) =>
             /\ phase' = "ready"
             /\ chain' = <<>>
             /\ wallets' = <<>>
             /\ mnemonicWords' = PlaceholderWords
       /\ (HydrateStep /\ chain' # <<>>) =>
             \A i \in 1..Len(wallets') :
                 \E k \in 0..MaxWallets :
                     wallets'[i].path = Bip44Path(chain', TwoDigits(k))]_vars

\* C35: in a session started from empty storage in which no wallet is
\* deleted, the wallet at position i records account index i in its path and
\* no two wallets of the collection record the same path.
C35_PositionIsAccountIndex ==
    /\ \A i \in 1..Len(wallets) :
          wallets[i].path = Bip44Path(chain, TwoDigits(i - 1))
    /\ \A i, j \in 1..Len(wallets) :
          i # j => wallets[i].path # wallets[j].path

C35_Witness ==
    /\ Len(wallets) = 2
    /\ chain = SOLANA
    /\ mnemonicWords = UserWords12
    /\ wallets[1].path = Bip44Path(SOLANA, <<"0">>)
    /\ wallets[2].path = Bip44Path(SOLANA, <<"1">>)

\* C36: there is no mutual exclusion.  Two addWallet intents applied to the
\* same snapshot of N wallets both derive account index N and each writes a
\* list of N + 1 wallets; when both are done the collection holds N + 1
\* wallets, not N + 2, and so does the wallets record once both have
\* written.  A serialized addWallet always adds one wallet, at the next index.
C36_LostUpdate ==
    [][/\ (phase = "inFlight" /\ phase' = "ready") =>
             LET N == Len(last'.snapshot.wallets)
             IN  /\ last'.indexes = <<N, N>>
                 /\ \A k \in 1..Len(last'.writes) : last'.writes[k] = N + 1
                 /\ Len(wallets') = N + 1
                 /\ Len(wallets') # N + 2
                 /\ Len(last'.writes) = 2 =>
                       storage'["wallets"] = <<<<"json", wallets'>>>>
       /\ (/\ phase = "ready"
           /\ phase' = "ready"
           /\ last'.intent = "addWallet"
           /\ last'.toast = "generated") =>
             /\ Len(wallets') = Len(wallets) + 1
             /\ wallets'[Len(wallets')].path =
                   Bip44Path(chain, TwoDigits(Len(wallets)))
             /\ storage'["wallets"] = <<<<"json", wallets'>>>>]_vars

C36_Witness ==
    /\ phase = "ready"
    /\ "inFlight" \in DOMAIN last
    /\ last.inFlight = 0
    /\ Len(last.snapshot.wallets) = 1
    /\ last.indexes = <<1, 1>>
    /\ last.writes = <<2, 2>>
    /\ Len(wallets) = 2
    /\ storage["wallets"] = <<<<"json", wallets>>>>

====
